---- MODULE Spec2Model ----
(***************************************************************************)
(* Pseudo-code to C++ translator: the parse-time type resolution of        *)
(* parser.py (symbol_table, has_return, type_provider, the grammar         *)
(* actions), the code generator (generate_cpp, to_cpp, control_flow) and  *)
(* the /convert handler of server.py.                                      *)
(*                                                                         *)
(* A source text is a function header (name, parameter list) and a body:   *)
(* a sequence of statement-level constructs, a compound statement being    *)
(* an opening construct (its header), the constructs of its body and a     *)
(* closing brace.  Texts (expressions, conditions, output lines) are       *)
(* sequences of tokens.                                                    *)
(***************************************************************************)
EXTENDS Integers, Sequences, FiniteSets, TLC

\* Longest function body, in statement-level constructs (a closing brace counts).
MaxLen == 3

\* ---------------------------------------------------------------- values

None == "None"

\* Identifiers the source texts use.
Names == {"x", "y"}

ReturnKey == "__return_type__"

ReturnQuery == "function_return_type"

Queries == Names \cup {ReturnQuery}

valid_dtypes == <<"int", "float", "string", "long", "char", "array", "vector">>

Range(s) == {s[i] : i \in DOMAIN s}

\* A token value as the grammar actions see it: its Python type and its text.
\* NUMBER carries an int or a float, ID and expression values are str.
Number(py, s) == [py |-> py, text |-> <<s>>]

Ident(n) == [py |-> "str", text |-> <<n>>]

Expression(t) == [py |-> "str", text |-> t]

NoValue == [py |-> "NoneType", text |-> <<>>]

\* str(value)
Str(value) == value.text

\* isinstance(value, (int, float))
IsNumber(value) == value.py \in {"int", "float"}

\* isinstance(value, str) and value.isidentifier()
IsIdentifier(value) ==
    value.py = "str" /\ Len(value.text) = 1 /\ value.text[1] \in Names

\* value.startswith(q) and value.endswith(q)
Quoted(value, q) ==
    Len(value.text) >= 1 /\ value.text[1] = q /\ value.text[Len(value.text)] = q

\* ---------------------------------------------------------------- dict

\* symbol_table is an insertion-ordered dict: a sequence of entries.
Has(st, k) == \E i \in DOMAIN st : st[i].k = k

Get(st, k) == st[CHOOSE i \in DOMAIN st : st[i].k = k].v

Put(st, k, v) ==
    IF Has(st, k)
    THEN [i \in DOMAIN st |-> IF st[i].k = k THEN [k |-> k, v |-> v] ELSE st[i]]
    ELSE Append(st, [k |-> k, v |-> v])

IsNotKey(e, k) == e.k # k

Pop(st, k) == SelectSeq(st, LAMBDA e : IsNotKey(e, k))

Keys(st) == {st[i].k : i \in DOMAIN st}

\* ---------------------------------------------------------------- type resolver

MissingTypeError(var) == [exc |-> "MissingTypeError", arg |-> var]

\* The answer of a provider that raises MissingTypeError(var) itself.
Raises == "<raises>"

\* No callback registered (type_provider = None).
NoProvider == [callable |-> FALSE, answers |-> [q \in Queries |-> Raises]]

Provider(f) == [callable |-> TRUE, answers |-> f]

\* str.strip() on the answers the providers give.
Strip(s) == IF s = " long " THEN "long" ELSE s

infer_type_no_int(value) ==
    IF value.py = "float" THEN "float" ELSE None

infer_type(value) ==
    IF value.py = "int" THEN "int"
    ELSE IF value.py = "float" THEN "float"
    ELSE IF value.py = "str" /\ Quoted(value, "\"") THEN "string"
    ELSE IF value.py = "str" /\ Quoted(value, "'") THEN "char"
    ELSE None

\* The outcome of one ask_type(var): the datatype returned or the exception
\* raised, and the provider call made (none when no provider is registered).
ask_type_unchecked(var, tp) ==
    IF ~tp.callable
    THEN [dtype |-> None, calls |-> <<>>, raised |-> <<MissingTypeError(var)>>]
    ELSE IF tp.answers[var] = Raises
    THEN [dtype |-> None, calls |-> <<[var |-> var, answer |-> Raises]>>,
          raised |-> <<MissingTypeError(var)>>]
    ELSE [dtype |-> Strip(tp.answers[var]),
          calls |-> <<[var |-> var, answer |-> tp.answers[var]]>>,
          raised |-> <<>>]

ask_type_names_sentinel(var, tp) ==
    IF ~tp.callable
    THEN [dtype |-> None, calls |-> <<>>, raised |-> <<MissingTypeError(ReturnQuery)>>]
    ELSE IF tp.answers[var] = Raises \/ Strip(tp.answers[var]) \notin Range(valid_dtypes)
    THEN [dtype |-> None, calls |-> <<[var |-> var, answer |-> tp.answers[var]]>>,
          raised |-> <<MissingTypeError(var)>>]
    ELSE [dtype |-> Strip(tp.answers[var]),
          calls |-> <<[var |-> var, answer |-> tp.answers[var]]>>,
          raised |-> <<>>]

ask_type(var, tp) ==
    IF ~tp.callable
    THEN [dtype |-> None, calls |-> <<>>, raised |-> <<MissingTypeError(var)>>]
    ELSE IF tp.answers[var] = Raises
    THEN [dtype |-> None, calls |-> <<[var |-> var, answer |-> Raises]>>,
          raised |-> <<MissingTypeError(var)>>]
    ELSE IF Strip(tp.answers[var]) \notin Range(valid_dtypes)
    THEN [dtype |-> None, calls |-> <<[var |-> var, answer |-> tp.answers[var]]>>,
          raised |-> <<MissingTypeError(var)>>]
    ELSE [dtype |-> Strip(tp.answers[var]),
          calls |-> <<[var |-> var, answer |-> tp.answers[var]]>>,
          raised |-> <<>>]

\* The parse state P: the globals symbol_table and has_return, the provider
\* calls made so far, the exception in flight (<<>> when none), the parser's
\* value stack (one frame per open statement list) and the parse result.

\* symbol_table[key] = ask_type(var)
SetAsked(P, key, var, tp) ==
    LET r == ask_type(var, tp)
    IN  [P EXCEPT !.calls = @ \o r.calls,
                  !.raised = r.raised,
                  !.symbol_table = IF r.raised = <<>> THEN Put(@, key, r.dtype) ELSE @]

handle_assignment_asks_target(P, var, value, is_expression, tp) ==
    IF IsNumber(value)
    THEN IF infer_type(value) # None
         THEN [P EXCEPT !.symbol_table = Put(@, var, infer_type(value))]
         ELSE P
    ELSE IF ~Has(P.symbol_table, var) THEN SetAsked(P, var, var, tp) ELSE P

handle_assignment(P, var, value, is_expression, tp) ==
    IF IsNumber(value)
    THEN IF infer_type(value) # None
         THEN [P EXCEPT !.symbol_table = Put(@, var, infer_type(value))]
         ELSE P
    ELSE IF value.py = "str"
    THEN IF ~is_expression /\ IsIdentifier(value)
         THEN LET src == value.text[1]
                  Q == IF ~Has(P.symbol_table, src) THEN SetAsked(P, src, src, tp) ELSE P
              IN  IF Q.raised # <<>>
                  THEN Q
                  ELSE [Q EXCEPT !.symbol_table = Put(@, var, Get(@, src))]
         ELSE IF ~Has(P.symbol_table, var) THEN SetAsked(P, var, var, tp) ELSE P
    ELSE P

\* ---------------------------------------------------------------- grammar actions

\* An AST statement node.  Absent parts are empty: init and update hold at
\* most one assign node, condition is a text.
Node(type, var, value, condition, init, update, body) ==
    [type |-> type, var |-> var, value |-> value, condition |-> condition,
     init |-> init, update |-> update, body |-> body]

AssignNode(var, value) ==
    Node("assign", var, Expression(Str(value)), <<>>, <<>>, <<>>, <<>>)

\* stmt_list : stmt_list statement -- the statement joins the innermost open list.
p_stmt_list(P, stmt) ==
    [P EXCEPT !.stack[Len(P.stack)].stmts = Append(@, stmt)]

\* The tokens of a compound statement up to its opening brace are on the stack.
PushFrame(P, node) ==
    [P EXCEPT !.stack = Append(@, [node |-> node, stmts |-> <<>>])]

p_factor_id_always_asks(P, var, tp) ==
    SetAsked(P, var, var, tp)

p_factor_id(P, var, tp) ==
    IF ~Has(P.symbol_table, var) THEN SetAsked(P, var, var, tp) ELSE P

\* The reductions of an expression or condition text, left to right: factor : ID
\* for every identifier; factor : NUMBER and the binary rules only build text.
RECURSIVE p_expression(_, _, _)
p_expression(P, text, tp) ==
    IF text = <<>> \/ P.raised # <<>>
    THEN P
    ELSE p_expression(IF Head(text) \in Names THEN p_factor_id(P, Head(text), tp) ELSE P,
                      Tail(text), tp)

\* statement : ID ASSIGN NUMBER SEMICOLON | ID ASSIGN ID SEMICOLON
p_statement_assign_simple(P, var, val, tp) ==
    LET Q == handle_assignment(P, var, val, FALSE, tp)
    IN  IF Q.raised # <<>> THEN Q ELSE p_stmt_list(Q, AssignNode(var, val))

\* statement : ID ASSIGN expression SEMICOLON
p_statement_assign_expr(P, var, val, tp) ==
    LET E == p_expression(P, val.text, tp)
        Q == IF E.raised # <<>> THEN E ELSE handle_assignment(E, var, val, TRUE, tp)
    IN  IF Q.raised # <<>> THEN Q ELSE p_stmt_list(Q, AssignNode(var, val))

\* The type a return statement records under the sentinel key.
ReturnType(P, ret_val, tp) ==
    IF Has(P.symbol_table, ReturnKey)
    THEN P
    ELSE IF infer_type(ret_val) # None
    THEN [P EXCEPT !.symbol_table = Put(@, ReturnKey, infer_type(ret_val))]
    ELSE SetAsked(P, ReturnKey, ReturnQuery, tp)

p_statement_return_last_wins(P, ret_val, tp) ==
    LET E == IF IsNumber(ret_val) \/ IsIdentifier(ret_val)
             THEN P ELSE p_expression(P, ret_val.text, tp)
        Q == IF E.raised # <<>> THEN E
             ELSE ReturnType([E EXCEPT !.has_return = TRUE,
                                       !.symbol_table = Pop(@, ReturnKey)], ret_val, tp)
    IN  IF Q.raised # <<>> THEN Q
        ELSE p_stmt_list(Q, Node("return", "", ret_val, <<>>, <<>>, <<>>, <<>>))

\* statement : RETURN ID SEMICOLON | RETURN NUMBER SEMICOLON | RETURN expression SEMICOLON
p_statement_return(P, ret_val, tp) ==
    LET E == IF IsNumber(ret_val) \/ IsIdentifier(ret_val)
             THEN P ELSE p_expression(P, ret_val.text, tp)
        Q == IF E.raised # <<>> THEN E
             ELSE ReturnType([E EXCEPT !.has_return = TRUE], ret_val, tp)
    IN  IF Q.raised # <<>> THEN Q
        ELSE p_stmt_list(Q, Node("return", "", ret_val, <<>>, <<>>, <<>>, <<>>))

\* condition : expression relop expression
p_condition(P, text, tp) == p_expression(P, text, tp)

\* condition_opt : condition | empty
p_condition_opt(P, text, tp) == IF text = <<>> THEN P ELSE p_condition(P, text, tp)

\* for_init_opt and for_update_opt: ID ASSIGN NUMBER | ID ASSIGN ID |
\* ID ASSIGN expression | empty.  part is <<>> or <<[var, val]>>.
ForAssignment(P, part, tp) ==
    IF part = <<>>
    THEN P
    ELSE LET var == part[1].var
             val == part[1].val
             is_expr == ~IsNumber(val) /\ ~IsIdentifier(val)
             E == IF is_expr THEN p_expression(P, val.text, tp) ELSE P
         IN  IF E.raised # <<>> THEN E ELSE handle_assignment(E, var, val, is_expr, tp)

p_for_init_opt(P, part, tp) == ForAssignment(P, part, tp)

p_for_update_opt(P, part, tp) == ForAssignment(P, part, tp)

ForPart(part) ==
    IF part = <<>> THEN <<>> ELSE <<AssignNode(part[1].var, part[1].val)>>

\* IF LPAREN condition RPAREN LBRACE, up to the statement list of the body.
BeginIf(P, cond, tp) ==
    LET Q == p_condition(P, cond, tp)
    IN  IF Q.raised # <<>> THEN Q
        ELSE PushFrame(Q, Node("if", "", NoValue, cond, <<>>, <<>>, <<>>))

\* WHILE LPAREN condition RPAREN LBRACE
BeginWhile(P, cond, tp) ==
    LET Q == p_condition(P, cond, tp)
    IN  IF Q.raised # <<>> THEN Q
        ELSE PushFrame(Q, Node("while", "", NoValue, cond, <<>>, <<>>, <<>>))

\* FOR LPAREN for_init_opt SEMICOLON condition_opt SEMICOLON for_update_opt RPAREN LBRACE
BeginFor(P, init, cond, update, tp) ==
    LET I == p_for_init_opt(P, init, tp)
        C == IF I.raised # <<>> THEN I ELSE p_condition_opt(I, cond, tp)
        U == IF C.raised # <<>> THEN C ELSE p_for_update_opt(C, update, tp)
    IN  IF U.raised # <<>> THEN U
        ELSE PushFrame(U, Node("for", "", NoValue, cond, ForPart(init), ForPart(update), <<>>))

\* statement : IF ... | WHILE ... | FOR ... RBRACE: the open statement list
\* becomes the body of the node, which joins the enclosing list.
EndBlock(P) ==
    LET top == P.stack[Len(P.stack)]
        rest == [P EXCEPT !.stack = SubSeq(@, 1, Len(@) - 1)]
    IN  p_stmt_list(rest, [top.node EXCEPT !.body = top.stmts])

p_statement_if(P) == EndBlock(P)

p_statement_while(P) == EndBlock(P)

p_statement_for(P) == EndBlock(P)

\* for param in params: if param not in symbol_table: symbol_table[param] = ask_type(param)
RECURSIVE EnsureParams(_, _, _)
EnsureParams(P, params, tp) ==
    IF params = <<>> \/ P.raised # <<>>
    THEN P
    ELSE EnsureParams(IF ~Has(P.symbol_table, Head(params))
                      THEN SetAsked(P, Head(params), Head(params), tp)
                      ELSE P,
                      Tail(params), tp)

FunctionNode(name, params, body, ret_type) ==
    [type |-> "function", name |-> name, params |-> params, body |-> body,
     return_type |-> ret_type]

\* function : FN ID LPAREN param_list_opt RPAREN LBRACE stmt_list RBRACE, and
\* program : function
p_function(P, name, params, tp) ==
    LET found == P.has_return /\ Has(P.symbol_table, ReturnKey)
        ret_type == IF found THEN Get(P.symbol_table, ReturnKey) ELSE "void"
        popped == IF found THEN [P EXCEPT !.symbol_table = Pop(@, ReturnKey)] ELSE P
        Q == EnsureParams(popped, params, tp)
    IN  IF Q.raised # <<>> THEN Q
        ELSE [Q EXCEPT !.parsed = <<FunctionNode(name, params, Q.stack[1].stmts, ret_type)>>]

\* ---------------------------------------------------------------- code generation

\* One line of output: its indentation (in spaces) and its tokens.
Line(indent, toks) == [indent |-> indent * 4, toks |-> toks]

_format_for_assignment(assign_node, include_type) ==
    <<assign_node.var, "=">> \o assign_node.value.text

\* control_flow/for.py; body is generate_cpp(stmt["body"], indent + 1).
generate_for_cpp(stmt, indent, body) ==
    LET init_part == IF stmt.init # <<>>
                     THEN _format_for_assignment(stmt.init[1], FALSE) ELSE <<>>
        cond_part == stmt.condition
        update_part == IF stmt.update # <<>>
                       THEN _format_for_assignment(stmt.update[1], FALSE) ELSE <<>>
    IN  <<Line(indent, <<"for", "(">> \o init_part \o <<";">> \o cond_part \o <<";">>
                        \o update_part \o <<")", "{">>)>>
        \o body \o <<Line(indent, <<"}">>)>>

\* control_flow/if.py
generate_if_cpp(stmt, indent, body) ==
    <<Line(indent, <<"if", "(">> \o stmt.condition \o <<")", "{">>)>>
    \o body \o <<Line(indent, <<"}">>)>>

\* control_flow/while.py
generate_while_cpp(stmt, indent, body) ==
    <<Line(indent, <<"while", "(">> \o stmt.condition \o <<")", "{">>)>>
    \o body \o <<Line(indent, <<"}">>)>>

\* generate_cpp on a statement list (the branches other than "function").
RECURSIVE generate_cpp(_, _)
generate_cpp(parsed, indent) ==
    IF parsed = <<>>
    THEN <<>>
    ELSE LET stmt == Head(parsed)
             body == generate_cpp(stmt.body, indent + 1)
             here == CASE stmt.type = "assign" ->
                            <<Line(indent, _format_for_assignment(stmt, FALSE) \o <<";">>)>>
                       [] stmt.type = "if" -> generate_if_cpp(stmt, indent, body)
                       [] stmt.type = "while" -> generate_while_cpp(stmt, indent, body)
                       [] stmt.type = "for" -> generate_for_cpp(stmt, indent, body)
                       [] stmt.type = "return" ->
                            <<Line(indent, <<"return">> \o stmt.value.text \o <<";">>)>>
                       [] OTHER -> <<>>
         IN  here \o generate_cpp(Tail(parsed), indent)

\* dtype = symbol_table.get(param, ""); if not dtype: ask_type(param), for
\* every parameter.  G holds symbol_table, calls and raised.
RECURSIVE ParamTypes(_, _, _)
ParamTypes(G, params, tp) ==
    IF params = <<>> \/ G.raised # <<>>
    THEN G
    ELSE ParamTypes(IF ~Has(G.symbol_table, Head(params))
                       \/ Get(G.symbol_table, Head(params)) = ""
                    THEN SetAsked(G, Head(params), Head(params), tp)
                    ELSE G,
                    Tail(params), tp)

RECURSIVE ParamSig(_, _)
ParamSig(st, params) ==
    IF params = <<>> THEN <<>>
    ELSE <<Get(st, Head(params)), Head(params)>>
         \o (IF Tail(params) = <<>> THEN <<>> ELSE <<",">>)
         \o ParamSig(st, Tail(params))

vars_to_declare_with_params(st, params) ==
    SelectSeq(st, LAMBDA e : e.v # "")

\* Every symbol_table entry that is no parameter and has a datatype, in
\* the table's order.
vars_to_declare(st, params) ==
    SelectSeq(st, LAMBDA e : e.k \notin Range(params) /\ e.v # "")

Declarations(vars, indent) ==
    [i \in DOMAIN vars |-> Line(indent + 1, <<vars[i].v, vars[i].k, ";">>)]
    \o (IF vars # <<>> THEN <<Line(0, <<>>)>> ELSE <<>>)

\* generate_cpp on the function node: the globals after it, and its text.
generate_cpp_function(G, stmt, tp) ==
    LET H == ParamTypes(G, stmt.params, tp)
    IN  IF H.raised # <<>>
        THEN [H EXCEPT !.cpp = <<>>]
        ELSE [H EXCEPT !.cpp =
                 <<Line(0, <<stmt.return_type, stmt.name, "(">>
                            \o ParamSig(H.symbol_table, stmt.params) \o <<")", "{">>)>>
                 \o Declarations(vars_to_declare(H.symbol_table, stmt.params), 0)
                 \o generate_cpp(stmt.body, 1)
                 \o <<Line(0, <<"}">>), Line(0, <<>>)>>]

Preamble ==
    <<Line(0, <<"#include <bits/stdc++.h>">>), Line(0, <<"using namespace std;">>),
      Line(0, <<>>)>>

EntryPoint(name) ==
    <<Line(0, <<"int", "main", "(", ")", "{">>), Line(1, <<name, "(", ")", ";">>),
      Line(1, <<"return", "0", ";">>), Line(0, <<"}">>)>>

\* to_cpp(parsed) under the globals G: the globals after it and the program text.
to_cpp(G, parsed, tp) ==
    LET B == generate_cpp_function(G, parsed[1], tp)
    IN  IF B.raised # <<>> THEN B
        ELSE [B EXCEPT !.cpp = Preamble \o @ \o EntryPoint(parsed[1].name)]

\* ---------------------------------------------------------------- source texts

\* A statement-level construct of the source.  init and update are <<>> or
\* <<[var, val]>>.
Item(kind, var, val, cond, init, update) ==
    [kind |-> kind, var |-> var, val |-> val, cond |-> cond, init |-> init,
     update |-> update]

Assign(var, val) == Item("assign", var, val, <<>>, <<>>, <<>>)

Return(val) == Item("return", "", val, <<>>, <<>>, <<>>)

If(cond) == Item("if", "", NoValue, cond, <<>>, <<>>)

While(cond) == Item("while", "", NoValue, cond, <<>>, <<>>)

For(init, cond, update) == Item("for", "", NoValue, cond, init, update)

Close == Item("close", "", NoValue, <<>>, <<>>, <<>>)

Set(var, val) == <<[var |-> var, val |-> val]>>

Items ==
    { Assign("x", Number("int", "5")),
      Assign("x", Number("float", "2.5")),
      Assign("y", Ident("x")),
      Assign("y", Expression(<<"x", "+", "y">>)),
      Assign("x", Expression(<<"1", "+", "2">>)),
      Return(Number("int", "5")),
      Return(Ident("y")),
      Return(Expression(<<"x", "+", "1">>)),
      If(<<"x", "<", "y">>),
      While(<<"y", "<", "10">>),
      For(Set("x", Number("int", "0")), <<"x", "<", "10">>,
          Set("x", Expression(<<"x", "+", "1">>))),
      For(<<>>, <<>>, Set("y", Ident("x"))),
      Close }

Opens == {"if", "while", "for"}

\* Braces balance: the nesting depth after each prefix, -1 once a closing
\* brace has no opening one.
RECURSIVE Depth(_)
Depth(body) ==
    IF body = <<>> THEN 0
    ELSE LET d == Depth(SubSeq(body, 1, Len(body) - 1))
             last == body[Len(body)]
         IN  IF d < 0 THEN -1
             ELSE IF last.kind = "close" THEN d - 1
             ELSE IF last.kind \in Opens THEN d + 1
             ELSE d

Bodies ==
    {b \in UNION {[1..n -> Items] : n \in 0..MaxLen} : Depth(b) = 0}

ParamLists == {<<>>, <<"y">>, <<"y", "x">>}

Source(name, params, body) == [name |-> name, params |-> params, body |-> body]

Programs == {Source("f", ps, b) : ps \in ParamLists, b \in Bodies}

\* An empty text.
NoSource == Source("", <<>>, <<>>)

TypeProviders ==
    { Provider("x" :> "int" @@ "y" :> "float" @@ ReturnQuery :> " long "),
      Provider("x" :> "char" @@ "y" :> "bool" @@ ReturnQuery :> "int"),
      Provider("x" :> Raises @@ "y" :> "int" @@ ReturnQuery :> "") }

\* ---------------------------------------------------------------- parse_code as a whole

\* symbol_table = {}; has_return = False
Reset_keeps(G) == G

Reset(G) == [symbol_table |-> <<>>, has_return |-> FALSE]

\* The value stack once the function header is read.
StartStack(src) ==
    <<[node |-> Node("function", src.name, NoValue, <<>>, <<>>, <<>>, <<>>),
      stmts |-> <<>>]>>

\* The grammar action a construct of the body ends in.
Reduce(P, it, tp) ==
    CASE it.kind = "assign" ->
            IF IsNumber(it.val) \/ IsIdentifier(it.val)
            THEN p_statement_assign_simple(P, it.var, it.val, tp)
            ELSE p_statement_assign_expr(P, it.var, it.val, tp)
      [] it.kind = "return" -> p_statement_return(P, it.val, tp)
      [] it.kind = "if" -> BeginIf(P, it.cond, tp)
      [] it.kind = "while" -> BeginWhile(P, it.cond, tp)
      [] it.kind = "for" -> BeginFor(P, it.init, it.cond, it.update, tp)
      [] OTHER ->
            CASE P.stack[Len(P.stack)].node.type = "if" -> p_statement_if(P)
              [] P.stack[Len(P.stack)].node.type = "while" -> p_statement_while(P)
              [] OTHER -> p_statement_for(P)

RECURSIVE ParseBody(_, _, _)
ParseBody(P, body, tp) ==
    IF body = <<>> \/ P.raised # <<>>
    THEN P
    ELSE ParseBody(Reduce(P, Head(body), tp), Tail(body), tp)

\* parser.parse(code) from the globals G.
parser_parse(G, src, tp) ==
    LET B == ParseBody([symbol_table |-> G.symbol_table, has_return |-> G.has_return,
                        calls |-> <<>>, raised |-> <<>>, stack |-> StartStack(src),
                        parsed |-> <<>>], src.body, tp)
    IN  IF B.raised # <<>> THEN B ELSE p_function(B, src.name, src.params, tp)

\* parse_code(code) from the globals G: the parse state it ends in.
parse_code_run(G, src, tp) == parser_parse(Reset(G), src, tp)

\* ---------------------------------------------------------------- server.py

\* Requests the server handles, one after another or overlapping.
MaxRequests == 3

Requests == 1..MaxRequests

\* The texts the clients send.
Requested ==
    { Source("f", <<>>, <<Assign("x", Number("int", "5")), Assign("y", Ident("x")),
                          Return(Ident("y"))>>),
      Source("f", <<"y">>, <<Assign("y", Expression(<<"x", "+", "y">>))>>),
      Source("f", <<>>, <<Assign("x", Expression(<<"1", "+", "2">>)),
                          Return(Number("int", "5"))>>),
      Source("f", <<"y", "x">>, <<>>) }

\* The "types" they send: a datatype per name, "" for a name left out.
TypeHints ==
    { "x" :> "int" @@ "y" :> "float" @@ ReturnQuery :> "int",
      "x" :> "float" @@ "y" :> "int" @@ ReturnQuery :> "long",
      "x" :> "int" @@ "y" :> "" @@ ReturnQuery :> "bool" }

\* _provider(var, allowed): the hint, or MissingTypeError(var).
make_http_type_provider(type_hints) ==
    Provider([q \in Queries |->
                 IF type_hints[q] \in Range(valid_dtypes) THEN type_hints[q] ELSE Raises])

NoHints == [q \in Queries |-> ""]

Response(status, error, variable, text) ==
    [status |-> status, error |-> error, variable |-> variable, cpp |-> text]

NoResponse == Response(0, "", "", <<>>)

\* jsonify({"cpp": cpp_code})
Ok(text) == Response(200, "", "", text)

\* jsonify({"error": "missing_type", "variable": str(e), ...}), 400
MissingType(e) == Response(400, "missing_type", e.arg, <<>>)

\* jsonify({"error": "No code provided"}), 400
NoCode == Response(400, "No code provided", "", <<>>)

Idle ==
    [pc |-> "idle", code |-> NoSource, types |-> NoHints, parsed |-> <<>>,
     calls |-> <<>>, resp |-> NoResponse]

\* ---------------------------------------------------------------- one run

VARIABLES
    type_provider,   \* parser.type_provider
    symbol_table,    \* parser.symbol_table
    has_return,      \* parser.has_return
    code,            \* the text given to parse_code
    pos,             \* the construct of the body the parser is at
    stack,           \* the parser's value stack
    parsed,          \* <<>> or the list parse_code returned
    calls,           \* the provider calls of this run, in order
    raised,          \* <<>> or the exception that ended the run
    cpp,             \* the lines to_cpp returned
    pc,              \* where the caller is
    http             \* the /convert requests of server.py: data, locals, response

vars == <<type_provider, symbol_table, has_return, code, pos, stack, parsed, calls,
          raised, cpp, pc, http>>

run == <<code, pos, stack, parsed, calls, raised, cpp, pc>>

Init ==
    /\ type_provider = NoProvider
    /\ symbol_table = <<>>
    /\ has_return = FALSE
    /\ code = NoSource
    /\ pos = 0
    /\ stack = <<>>
    /\ parsed = <<>>
    /\ calls = <<>>
    /\ raised = <<>>
    /\ cpp = <<>>
    /\ pc = "start"
    /\ http = [r \in Requests |-> Idle]

Globals == [symbol_table |-> symbol_table, has_return |-> has_return]

\* The parse state the grammar actions work on.
Parser ==
    [symbol_table |-> symbol_table, has_return |-> has_return, calls |-> calls,
     raised |-> raised, stack |-> stack, parsed |-> parsed]

\* A grammar action has run: an exception leaves parser.parse, else the parser
\* goes on with the next construct.
Reduced(Q) ==
    /\ symbol_table' = Q.symbol_table
    /\ has_return' = Q.has_return
    /\ calls' = Q.calls
    /\ raised' = Q.raised
    /\ stack' = Q.stack
    /\ parsed' = Q.parsed
    /\ pc' = IF Q.raised # <<>> THEN "raised" ELSE IF Q.parsed # <<>> THEN "parsed" ELSE "parsing"
    /\ pos' = pos + 1
    /\ UNCHANGED <<type_provider, code, cpp, http>>

At(kind) ==
    /\ pc = "parsing"
    /\ pos <= Len(code.body)
    /\ code.body[pos].kind = kind

Simple(val) == IsNumber(val) \/ IsIdentifier(val)

register_type_provider ==
    /\ pc = "start"
    /\ \E fn \in TypeProviders : type_provider' = fn
    /\ pc' = "ready"
    /\ UNCHANGED <<symbol_table, has_return, code, pos, stack, parsed, calls, raised, cpp,
                   http>>

\* parse_code(code): the globals are reset, then parser.parse runs.
parse_code(src) ==
    /\ pc \in {"start", "ready"}
    /\ symbol_table' = Reset(Globals).symbol_table
    /\ has_return' = Reset(Globals).has_return
    /\ code' = src
    /\ pos' = 1
    /\ stack' = StartStack(src)
    /\ pc' = "parsing"
    /\ UNCHANGED <<type_provider, parsed, calls, raised, cpp, http>>

ParseCode == \E src \in Programs : parse_code(src)

AssignSimple ==
    /\ At("assign")
    /\ Simple(code.body[pos].val)
    /\ Reduced(p_statement_assign_simple(Parser, code.body[pos].var, code.body[pos].val,
                                         type_provider))

AssignExpr ==
    /\ At("assign")
    /\ ~Simple(code.body[pos].val)
    /\ Reduced(p_statement_assign_expr(Parser, code.body[pos].var, code.body[pos].val,
                                       type_provider))

ReturnStatement ==
    /\ At("return")
    /\ Reduced(p_statement_return(Parser, code.body[pos].val, type_provider))

IfHeader ==
    /\ At("if")
    /\ Reduced(BeginIf(Parser, code.body[pos].cond, type_provider))

WhileHeader ==
    /\ At("while")
    /\ Reduced(BeginWhile(Parser, code.body[pos].cond, type_provider))

ForHeader ==
    /\ At("for")
    /\ Reduced(BeginFor(Parser, code.body[pos].init, code.body[pos].cond,
                        code.body[pos].update, type_provider))

IfStatement ==
    /\ At("close")
    /\ stack[Len(stack)].node.type = "if"
    /\ Reduced(p_statement_if(Parser))

WhileStatement ==
    /\ At("close")
    /\ stack[Len(stack)].node.type = "while"
    /\ Reduced(p_statement_while(Parser))

ForStatement ==
    /\ At("close")
    /\ stack[Len(stack)].node.type = "for"
    /\ Reduced(p_statement_for(Parser))

Function ==
    /\ pc = "parsing"
    /\ pos > Len(code.body)
    /\ Reduced(p_function(Parser, code.name, code.params, type_provider))

\* to_cpp(result), which the callers run once parse_code has returned.
ToCpp ==
    /\ pc = "parsed"
    /\ \E G \in {to_cpp([symbol_table |-> symbol_table, calls |-> calls,
                          raised |-> raised, cpp |-> cpp], parsed, type_provider)} :
           /\ symbol_table' = G.symbol_table
           /\ calls' = G.calls
           /\ raised' = G.raised
           /\ cpp' = G.cpp
           /\ pc' = IF G.raised # <<>> THEN "raised" ELSE "emitted"
    /\ UNCHANGED <<type_provider, has_return, code, pos, stack, parsed, http>>

Next ==
    \/ register_type_provider
    \/ ParseCode
    \/ AssignSimple
    \/ AssignExpr
    \/ ReturnStatement
    \/ IfHeader
    \/ WhileHeader
    \/ ForHeader
    \/ IfStatement
    \/ WhileStatement
    \/ ForStatement
    \/ Function
    \/ ToCpp

Spec == Init /\ [][Next]_vars

\* ---------------------------------------------------------------- what a text uses

Ended == pc \in {"parsed", "emitted", "raised"}

Succeeded == pc \in {"parsed", "emitted"}

IdsOf(text) == {text[i] : i \in DOMAIN text} \cap Names

PartIds(part) ==
    IF part = <<>> THEN {} ELSE {part[1].var} \cup IdsOf(part[1].val.text)

\* The names a construct uses: targets, operands, loop-header variables.
ItemIds(it) ==
    (IF it.kind = "assign" THEN {it.var} ELSE {})
    \cup IdsOf(it.val.text) \cup IdsOf(it.cond) \cup PartIds(it.init) \cup PartIds(it.update)

UsedNames(src) ==
    Range(src.params) \cup UNION {ItemIds(src.body[i]) : i \in DOMAIN src.body}

\* C1: when parse_code returns, every name the function uses (assignment and
\* loop-header targets, parameters, operands of expressions, conditions and
\* return values) has a symbol_table entry before to_cpp runs; otherwise the
\* run ended in MissingTypeError and nothing was generated.
C1_EveryUsedNameTyped ==
    /\ pc = "parsed" => \A n \in UsedNames(code) : Has(symbol_table, n)
    /\ pc = "raised" => raised[1].exc = "MissingTypeError" /\ cpp = <<>>

\* ---------------------------------------------------------------- the generated text

\* The lines of the function between its signature and its closing brace.
FunctionLines == SubSeq(cpp, 5, Len(cpp) - 6)

Signature == cpp[4].toks

IsDeclaration(l) ==
    Len(l.toks) = 3 /\ l.toks[1] \in Range(valid_dtypes) /\ l.toks[3] = ";"

IsStatement(l) == l.toks # <<>> /\ ~IsDeclaration(l)

DeclarationsOf(n) ==
    {i \in DOMAIN FunctionLines :
        IsDeclaration(FunctionLines[i]) /\ FunctionLines[i].toks[2] = n}

UsedInBody ==
    {n \in Names : \E i \in DOMAIN FunctionLines :
        IsStatement(FunctionLines[i]) /\ n \in Range(FunctionLines[i].toks)}

DeclarationsFirst ==
    \A i, j \in DOMAIN FunctionLines :
        IsDeclaration(FunctionLines[i]) /\ IsStatement(FunctionLines[j]) => i < j

ForHeadersUntyped ==
    \A i \in DOMAIN FunctionLines :
        LET toks == FunctionLines[i].toks
        IN  (toks # <<>> /\ toks[1] = "for") =>
                /\ Range(toks) \cap Range(valid_dtypes) = {}
                /\ \A k \in DOMAIN toks :
                      toks[k] = "=" => k > 1 /\ toks[k - 1] \in Names

\* The names a construct types: every use but the operand of a bare "return name;".
TypedIds(it) == IF it.kind = "return" /\ IsIdentifier(it.val) THEN {} ELSE ItemIds(it)

TypedNames(src) == UNION {TypedIds(src.body[i]) : i \in DOMAIN src.body}

InSignature(n) ==
    Cardinality({k \in DOMAIN Signature :
        k > 1 /\ Signature[k] = n /\ Signature[k - 1] \in Range(valid_dtypes)})

\* C2 as claimed: in every output of to_cpp each identifier used in a body
\* statement has exactly one declaration line "type name;", the declaration
\* lines precede the first body statement, and a for header holds only
\* "var = value" forms, without a type label.
C2_EveryUsedNameDeclaredOnce ==
    pc = "emitted" =>
        /\ \A n \in UsedInBody : Cardinality(DeclarationsOf(n)) = 1
        /\ DeclarationsFirst
        /\ ForHeadersUntyped

\* C2 as amended: a parameter has no declaration line and is declared once, in
\* the signature; every other identifier of the body has exactly one
\* declaration line, unless its only use is as the operand of a bare
\* "return name;", which leaves it undeclared; declaration lines come first and
\* for headers carry no type label.
C2_Hoisting ==
    pc = "emitted" =>
        /\ \A n \in UsedInBody :
              /\ n \in Range(code.params) =>
                    Cardinality(DeclarationsOf(n)) = 0 /\ InSignature(n) = 1
              /\ n \in TypedNames(code) \ Range(code.params) =>
                    Cardinality(DeclarationsOf(n)) = 1 /\ InSignature(n) = 0
              /\ n \notin TypedNames(code) \cup Range(code.params) =>
                    Cardinality(DeclarationsOf(n)) = 0
        /\ DeclarationsFirst
        /\ ForHeadersUntyped

\* A program with parameters used in its body, a local variable and a for loop
\* has been emitted.
C2_Witness ==
    /\ pc = "emitted"
    /\ code.params # <<>>
    /\ UsedInBody \cap Range(code.params) # {}
    /\ \E i \in DOMAIN FunctionLines : IsDeclaration(FunctionLines[i])
    /\ \E i \in DOMAIN FunctionLines :
          FunctionLines[i].toks # <<>> /\ FunctionLines[i].toks[1] = "for"

\* ---------------------------------------------------------------- propagation

IsLiteralAssign(it, a) == it.kind = "assign" /\ it.var = a /\ IsNumber(it.val)

IsCopy(it, b, a) == it.kind = "assign" /\ it.var = b /\ it.val = Ident(a)

\* The body holds "a = <literal>; b = a;" at constructs i and i + 1.
CopiesLiteral(body, i, a, b) ==
    /\ i + 1 <= Len(body)
    /\ IsLiteralAssign(body[i], a)
    /\ IsCopy(body[i + 1], b, a)

\* The names a construct assigns: as a statement or in a for header.
Targets(it) ==
    (IF it.kind = "assign" THEN {it.var} ELSE {})
    \cup (IF it.init = <<>> THEN {} ELSE {it.init[1].var})
    \cup (IF it.update = <<>> THEN {} ELSE {it.update[1].var})

\* C3 as claimed: whenever the body holds "a = <literal>; b = a;", with any
\* statements before or after, a successful parse records the same type for
\* b as for a.
C3_CopyHasSourceType ==
    pc = "parsed" =>
        \A a, b \in Names : \A i \in DOMAIN code.body :
            (a # b /\ CopiesLiteral(code.body, i, a, b)) =>
                /\ Has(symbol_table, a) /\ Has(symbol_table, b)
                /\ Get(symbol_table, b) = Get(symbol_table, a)

\* C3 as amended: the same, when no statement or for header after "b = a;"
\* assigns a or b again (a later assignment of a literal or of another
\* identifier overwrites the type of its target alone).
C3_CopyHasSourceTypeUntilReassigned ==
    pc = "parsed" =>
        \A a, b \in Names : \A i \in DOMAIN code.body :
            (/\ a # b
             /\ CopiesLiteral(code.body, i, a, b)
             /\ \A j \in DOMAIN code.body : j > i + 1 => Targets(code.body[j]) \cap {a, b} = {})
            => /\ Has(symbol_table, a) /\ Has(symbol_table, b)
               /\ Get(symbol_table, b) = Get(symbol_table, a)

\* "x = <literal>; y = x;" and a later statement that assigns neither were parsed.
C3_Witness ==
    /\ pc = "parsed"
    /\ Len(code.body) = 3
    /\ CopiesLiteral(code.body, 1, "x", "y")
    /\ Targets(code.body[3]) \cap {"x", "y"} = {}
    /\ type_provider.callable

\* fn f() { x = 5; y = x; return y; }
Scenario2 ==
    Source("f", <<>>, <<Assign("x", Number("int", "5")), Assign("y", Ident("x")),
                        Return(Ident("y"))>>)

\* C4 as claimed: parsing fn f() { x = 5; y = x; return y; } resolves x and y
\* to int without any provider call, so it succeeds with no provider too.
C4_NoOracleCall ==
    (code = Scenario2 /\ Ended) =>
        /\ pc # "raised"
        /\ calls = <<>>
        /\ Get(symbol_table, "x") = "int"
        /\ Get(symbol_table, "y") = "int"

\* C4 as amended: x is int by inference and y is int by propagation, with no
\* provider call for either; "return y;" then asks the provider once, for
\* function_return_type, so with no provider the parse raises
\* MissingTypeError(function_return_type).
C4_OnlyReturnTypeAsked ==
    code = Scenario2 =>
        /\ (pos = 3 /\ pc = "parsing") => calls = <<>>
        /\ (pos >= 3 /\ pc # "raised") =>
              /\ Get(symbol_table, "x") = "int"
              /\ Get(symbol_table, "y") = "int"
        /\ pos > 3 =>
              IF type_provider.callable
              THEN /\ Len(calls) = 1
                   /\ calls[1].var = ReturnQuery
              ELSE /\ calls = <<>>
                   /\ pc = "raised"
                   /\ raised = <<MissingTypeError(ReturnQuery)>>

\* The scenario was parsed and emitted under a provider that was asked once.
C4_Witness ==
    /\ code = Scenario2
    /\ pc = "emitted"
    /\ Len(calls) = 1

\* ---------------------------------------------------------------- needs, in parse order

\* What a text asks of the symbol table, in the order the parser meets it: a
\* need of a type (of an operand, or of something else: the target of an
\* expression assignment, the return type, a parameter) or a definition by a
\* literal or a copy.
Need(key, query, operand) == [op |-> "need", key |-> key, query |-> query, operand |-> operand]

Def(key) == [op |-> "def", key |-> key, query |-> key, operand |-> FALSE]

RECURSIVE OperandNeeds(_)
OperandNeeds(text) ==
    IF text = <<>> THEN <<>>
    ELSE (IF Head(text) \in Names THEN <<Need(Head(text), Head(text), TRUE)>> ELSE <<>>)
         \o OperandNeeds(Tail(text))

AssignEvents(var, val) ==
    IF IsNumber(val) THEN <<Def(var)>>
    ELSE IF IsIdentifier(val) THEN <<Need(val.text[1], val.text[1], TRUE), Def(var)>>
    ELSE OperandNeeds(val.text) \o <<Need(var, var, FALSE)>>

PartEvents(part) ==
    IF part = <<>> THEN <<>> ELSE AssignEvents(part[1].var, part[1].val)

ItemEvents(it) ==
    CASE it.kind = "assign" -> AssignEvents(it.var, it.val)
      [] it.kind = "return" ->
            IF IsNumber(it.val) THEN <<Def(ReturnKey)>>
            ELSE IF IsIdentifier(it.val) THEN <<Need(ReturnKey, ReturnQuery, FALSE)>>
            ELSE OperandNeeds(it.val.text) \o <<Need(ReturnKey, ReturnQuery, FALSE)>>
      [] it.kind \in {"if", "while"} -> OperandNeeds(it.cond)
      [] it.kind = "for" ->
            PartEvents(it.init) \o OperandNeeds(it.cond) \o PartEvents(it.update)
      [] OTHER -> <<>>

RECURSIVE BodyEvents(_)
BodyEvents(body) ==
    IF body = <<>> THEN <<>> ELSE ItemEvents(Head(body)) \o BodyEvents(Tail(body))

RECURSIVE ParamEvents(_)
ParamEvents(params) ==
    IF params = <<>> THEN <<>>
    ELSE <<Need(Head(params), Head(params), FALSE)>> \o ParamEvents(Tail(params))

Events(src) == BodyEvents(src.body) \o ParamEvents(src.params)

\* The first need no earlier definition covers, None when there is none.  With
\* operandsOnly only the needs of operands count; the others are passed over
\* and type nothing.
RECURSIVE FirstNeed(_, _, _)
FirstNeed(events, typed, operandsOnly) ==
    IF events = <<>> THEN None
    ELSE LET e == Head(events)
             unmet == e.op = "need" /\ e.key \notin typed
         IN  IF unmet /\ (e.operand \/ ~operandsOnly)
             THEN e.query
             ELSE FirstNeed(Tail(events),
                            IF unmet THEN typed ELSE typed \cup {e.key},
                            operandsOnly)

\* C5 as claimed: with no provider registered, a program that uses a variable
\* without symbol_table entry as an operand makes parse_code raise
\* MissingTypeError naming the first such variable; nothing is returned and
\* nothing generated.
C5_NamesFirstUntypedOperand ==
    (/\ type_provider = NoProvider
     /\ Ended
     /\ FirstNeed(Events(code), {}, TRUE) # None)
    => /\ pc = "raised"
       /\ raised = <<MissingTypeError(FirstNeed(Events(code), {}, TRUE))>>
       /\ parsed = <<>>
       /\ cpp = <<>>

\* C5 as amended: parse_code raises MissingTypeError, returns nothing and
\* nothing is generated; the error names the first type the parse needs from
\* the provider: that variable, unless the target of an earlier expression
\* assignment or the return type of an earlier return (function_return_type)
\* is needed before it.
C5_NamesFirstNeed ==
    (/\ type_provider = NoProvider
     /\ Ended
     /\ FirstNeed(Events(code), {}, TRUE) # None)
    => /\ pc = "raised"
       /\ raised = <<MissingTypeError(FirstNeed(Events(code), {}, FALSE))>>
       /\ calls = <<>>
       /\ parsed = <<>>
       /\ cpp = <<>>

\* Without provider, a parse ended at the second construct, on an operand that a
\* literal assignment before it did not type.
C5_Witness ==
    /\ type_provider = NoProvider
    /\ pc = "raised"
    /\ pos = 3
    /\ raised[1].arg \in Names
    /\ raised[1].arg = FirstNeed(Events(code), {}, TRUE)

\* ---------------------------------------------------------------- provider calls

Failed(call) == call.answer = Raises \/ Strip(call.answer) \notin Range(valid_dtypes)

\* C7: in one run the provider is called at most once for any name, and a
\* failed call is the last call of the run.
C7_AskedOnce ==
    /\ \A i, j \in DOMAIN calls : calls[i].var = calls[j].var => i = j
    /\ \A i \in DOMAIN calls : Failed(calls[i]) => i = Len(calls) /\ pc = "raised"

\* A run asked the provider twice and the second call failed.
C7_Witness ==
    /\ pc = "raised"
    /\ Len(calls) >= 2
    /\ Failed(calls[Len(calls)])

\* ---------------------------------------------------------------- return type

ReturnsOf(body) == SelectSeq(body, LAMBDA it : it.kind = "return")

\* C8: return_type is void exactly when the body has no return statement;
\* else it is the type of the first return in source order (its literal's
\* type, or the provider's answer to one query), whatever returns follow; the
\* sentinel key leaves symbol_table and is never declared.
C8_ReturnType ==
    Succeeded =>
        LET rets == ReturnsOf(code.body)
            ret_type == parsed[1].return_type
        IN  /\ (ret_type = "void") <=> (rets = <<>>)
            /\ rets # <<>> =>
                  ret_type = IF IsNumber(rets[1].val) THEN rets[1].val.py
                             ELSE Strip(type_provider.answers[ReturnQuery])
            /\ Cardinality({i \in DOMAIN calls : calls[i].var = ReturnQuery})
                  = IF rets # <<>> /\ ~IsNumber(rets[1].val) THEN 1 ELSE 0
            /\ ~Has(symbol_table, ReturnKey)
            /\ pc = "emitted" => \A i \in DOMAIN cpp : ReturnKey \notin Range(cpp[i].toks)

\* A function whose first return is a literal and whose second is not was emitted.
C8_Witness ==
    /\ pc = "emitted"
    /\ Len(ReturnsOf(code.body)) >= 2
    /\ IsNumber(ReturnsOf(code.body)[1].val)
    /\ ~IsNumber(ReturnsOf(code.body)[2].val)

\* ---------------------------------------------------------------- type labels

StoredLabelsValid ==
    \A i \in DOMAIN symbol_table : symbol_table[i].v \in Range(valid_dtypes)

KeyOf(query) == IF query = ReturnQuery THEN ReturnKey ELSE query

\* C9 as claimed: every label in symbol_table is one of the seven valid
\* ones, and a provider answer that is not a member of that set makes ask_type
\* raise MissingTypeError naming the queried variable, no entry being recorded.
C9_AnswerOutsideSetRaises ==
    /\ StoredLabelsValid
    /\ \A i \in DOMAIN calls :
          calls[i].answer \notin Range(valid_dtypes) =>
              /\ raised = <<MissingTypeError(calls[i].var)>>
              /\ ~Has(symbol_table, KeyOf(calls[i].var))

\* C9 as amended: the same for an answer that is no member of the set once
\* surrounding whitespace is stripped; a padded answer such as " long " is
\* accepted and recorded stripped.
C9_StrippedAnswerOutsideSetRaises ==
    /\ StoredLabelsValid
    /\ \A i \in DOMAIN calls :
          IF Strip(calls[i].answer) \notin Range(valid_dtypes)
          THEN /\ raised = <<MissingTypeError(calls[i].var)>>
               /\ ~Has(symbol_table, KeyOf(calls[i].var))
          ELSE pc = "parsing" => Has(symbol_table, KeyOf(calls[i].var))

\* The provider answered "bool" and the run ended in MissingTypeError.
C9_Witness ==
    /\ pc = "raised"
    /\ calls # <<>>
    /\ calls[Len(calls)].answer = "bool"

\* ---------------------------------------------------------------- /convert

\* Request r may take a step: any time when requests overlap, else only once
\* the requests before it are answered.
MayRun(r, overlapping) ==
    IF overlapping THEN TRUE ELSE \A o \in 1..(r - 1) : http[o].pc = "done"

\* convert(): no code in the request.
ConvertNoCode(r, overlapping) ==
    /\ MayRun(r, overlapping)
    /\ http[r].pc = "idle"
    /\ \E hints \in TypeHints :
          http' = [http EXCEPT ![r] = [@ EXCEPT !.pc = "done", !.types = hints,
                                                !.resp = NoCode]]
    /\ UNCHANGED <<type_provider, symbol_table, has_return, run>>

\* convert(): register_type_provider(make_http_type_provider(type_hints)).
ConvertRegister(r, overlapping) ==
    /\ MayRun(r, overlapping)
    /\ http[r].pc = "idle"
    /\ \E src \in Requested, hints \in TypeHints :
          /\ type_provider' = make_http_type_provider(hints)
          /\ http' = [http EXCEPT ![r] = [@ EXCEPT !.pc = "registered", !.code = src,
                                                    !.types = hints]]
    /\ UNCHANGED <<symbol_table, has_return, run>>

\* convert(): parsed = parse_code(code).
ConvertParse(r, overlapping) ==
    /\ MayRun(r, overlapping)
    /\ http[r].pc = "registered"
    /\ \E P \in {parse_code_run(Globals, http[r].code, type_provider)} :
           /\ symbol_table' = P.symbol_table
           /\ has_return' = P.has_return
           /\ http' = [http EXCEPT ![r] =
                          IF P.raised # <<>>
                          THEN [@ EXCEPT !.pc = "done", !.calls = P.calls,
                                         !.resp = MissingType(P.raised[1])]
                          ELSE [@ EXCEPT !.pc = "parsed", !.calls = P.calls,
                                         !.parsed = P.parsed]]
    /\ UNCHANGED <<type_provider, run>>

\* convert(): cpp_code = to_cpp(parsed); return jsonify({"cpp": cpp_code}).
ConvertToCpp(r, overlapping) ==
    /\ MayRun(r, overlapping)
    /\ http[r].pc = "parsed"
    /\ \E G \in {to_cpp([symbol_table |-> symbol_table, calls |-> http[r].calls,
                          raised |-> <<>>, cpp |-> <<>>], http[r].parsed, type_provider)} :
           /\ symbol_table' = G.symbol_table
           /\ http' = [http EXCEPT ![r] =
                          [@ EXCEPT !.pc = "done", !.calls = G.calls,
                                    !.resp = IF G.raised # <<>>
                                             THEN MissingType(G.raised[1])
                                             ELSE Ok(G.cpp)]]
    /\ UNCHANGED <<type_provider, has_return, run>>

\* The server answers its requests one after another.
NextSerial ==
    \E r \in Requests :
        \/ ConvertNoCode(r, FALSE)
        \/ ConvertRegister(r, FALSE)
        \/ ConvertParse(r, FALSE)
        \/ ConvertToCpp(r, FALSE)

SpecSerial == Init /\ [][NextSerial]_vars

\* Two requests are handled by threads of the server, their steps interleaved.
NextThreaded ==
    \E r \in {1, 2} :
        \/ ConvertNoCode(r, TRUE)
        \/ ConvertRegister(r, TRUE)
        \/ ConvertParse(r, TRUE)
        \/ ConvertToCpp(r, TRUE)

SpecThreaded == Init /\ [][NextThreaded]_vars

SameRequest(a, b) ==
    /\ http[a].pc = "done" /\ http[b].pc = "done"
    /\ http[a].code = http[b].code
    /\ http[a].types = http[b].types
    /\ http[a].code # NoSource

\* C6: parse_code resets symbol_table and has_return, so runs of the same text
\* under the same provider give the same output and the same provider calls,
\* whatever ran before them in the process.
C6_RunsAgree ==
    \A a, b \in Requests :
        SameRequest(a, b) => http[a].resp = http[b].resp /\ http[a].calls = http[b].calls

\* The same request was answered first and last, with provider calls and C++
\* text, a request with another text and other hints having failed in between.
C6_Witness ==
    /\ SameRequest(1, 3)
    /\ http[1].resp.status = 200
    /\ http[1].calls # <<>>
    /\ http[2].pc = "done"
    /\ http[2].code \notin {http[1].code, NoSource}
    /\ http[2].types # http[1].types
    /\ http[2].resp.error = "missing_type"
    /\ http[2].calls # <<>>

\* The response of a request handled with no other request in the process.
ResponseAlone(src, hints) ==
    LET tp == make_http_type_provider(hints)
        P == parse_code_run([symbol_table |-> <<>>, has_return |-> FALSE], src, tp)
        G == to_cpp([symbol_table |-> P.symbol_table, calls |-> P.calls,
                     raised |-> <<>>, cpp |-> <<>>], P.parsed, tp)
    IN  IF P.raised # <<>> THEN MissingType(P.raised[1])
        ELSE IF G.raised # <<>> THEN MissingType(G.raised[1])
        ELSE Ok(G.cpp)

\* C10: the provider a /convert request registers is request-scoped: with the
\* steps of two requests interleaved in any order, each request gets the
\* response it would get alone.
C10_RequestScoped ==
    \A r \in {1, 2} :
        (http[r].pc = "done" /\ http[r].code # NoSource) =>
            http[r].resp = ResponseAlone(http[r].code, http[r].types)

====
